---- MODULE Spec2Model ----
(***************************************************************************)
(* SistemaJuanchOS: the best-fit memory allocator                          *)
(* (src/src/kernel/memory_manager.py), the virtual file store              *)
(* (src/src/core/file_system.py) and the command dispatcher that drives    *)
(* the store (src/src/core/command_interface.py).                          *)
(*                                                                         *)
(* Python objects are modelled with identity: a MemoryBlock lives in       *)
(* `heap` under an object id, and both memory_blocks and process_memory    *)
(* hold ids, as the Python lists hold references to the same objects.      *)
(* Python strings are sequences of one-character strings.                  *)
(* datetime.now() stamps are abstracted to "set" / None: no claim compares *)
(* two instants.                                                           *)
(***************************************************************************)
EXTENDS Integers, Sequences, FiniteSets, TLC

VARIABLES
    memory_blocks,   \* MemoryManager.memory_blocks: list of block references
    heap,            \* the MemoryBlock objects, by object id
    used_memory,     \* MemoryManager.used_memory
    process_memory,  \* MemoryManager.process_memory: pid -> list of references
    mm_call,         \* the last allocator call and what it returned
    mm_ncalls,       \* number of allocator calls made so far (saturating)
    root,            \* FileSystem.root: the tree of nodes
    disk,            \* the JSON document in FileSystem.data_file
    fs_call,         \* the last store call, its arguments and its outcome
    current_dir,     \* CommandInterface.current_dir
    sh_call          \* the last command line and the string returned for it

mm_vars == <<memory_blocks, heap, used_memory, process_memory, mm_call, mm_ncalls>>

fs_vars == <<root, disk, fs_call>>

sh_vars == <<current_dir, sh_call>>

vars == <<mm_vars, fs_vars, sh_vars>>

(***************************************************************************)
(* Bounds of the model                                                     *)
(***************************************************************************)
\* MemoryManager(total_memory): the size of the address space
total_memory == 4
\* mm_ncalls counts calls up to this value and then stays
CallCap == 3
\* create_file and create_directory are called while the tree has fewer
\* nodes than this below its root
MaxNodes == 3

\* the process ids passed to the allocator, in increasing order
PidList == <<1, 2>>
Pids == {PidList[i] : i \in 1..Len(PidList)}
\* requested sizes: every valid size, and one invalid size on each side
Sizes == 0..(total_memory + 1)

\* Python's None, where the other values are integers
None == -1

(***************************************************************************)
(* Memory allocator: kernel/memory_manager.py                              *)
(***************************************************************************)

\* @dataclass MemoryBlock
MemoryBlock(start, size, is_free) ==
    [start |-> start, size |-> size, is_free |-> is_free,
     process_id |-> None, allocated_at |-> "None"]

\* the ids in a list of references
RefsOf(list) == {list[i] : i \in 1..Len(list)}

\* a fresh object id: one that no live object has
NewId(hp) == CHOOSE i \in 1..(Cardinality(DOMAIN hp) + 1) : i \notin DOMAIN hp

\* list.insert(index, x) with a 0-based index in 0..len
ListInsert(list, index, x) ==
    SubSeq(list, 1, index) \o <<x>> \o SubSeq(list, index + 1, Len(list))

\* list.pop(index) with a 0-based index: the list that remains
ListPop(list, index) ==
    SubSeq(list, 1, index) \o SubSeq(list, index + 2, Len(list))

\* the manager's fields as one value
MMSelf ==
    [memory_blocks |-> memory_blocks, heap |-> heap,
     used_memory |-> used_memory, process_memory |-> process_memory]

\* MemoryManager.__init__
MMInit ==
    /\ memory_blocks = <<1>>
    /\ heap = (1 :> MemoryBlock(0, total_memory, TRUE))
    /\ used_memory = 0
    /\ process_memory = << >>
    /\ mm_call = [op |-> "init", process_id |-> None, size |-> None,
                  ret |-> None, ok |-> FALSE, usage |-> << >>,
                  held |-> 0, nblocks |-> 0]
    /\ mm_ncalls = 0

\* a mutant of the scan: any free block is taken for large enough
RECURSIVE BestFitScan_anyfree(_, _, _, _, _, _)
BestFitScan_anyfree(blocks, hp, size, i, best, min_waste) ==
    IF i >= Len(blocks) THEN best
    ELSE LET block == hp[blocks[i + 1]]
             waste == block.size - size
         IN IF block.is_free /\ (best = -1 \/ waste < min_waste)
            THEN BestFitScan_anyfree(blocks, hp, size, i + 1, i, waste)
            ELSE BestFitScan_anyfree(blocks, hp, size, i + 1, best, min_waste)

\* a mutant of the scan: the first free block that is large enough is kept
RECURSIVE BestFitScan_firstfit(_, _, _, _, _, _)
BestFitScan_firstfit(blocks, hp, size, i, best, min_waste) ==
    IF i >= Len(blocks) THEN best
    ELSE LET block == hp[blocks[i + 1]]
             waste == block.size - size
         IN IF block.is_free /\ block.size >= size /\ best = -1
            THEN BestFitScan_firstfit(blocks, hp, size, i + 1, i, waste)
            ELSE BestFitScan_firstfit(blocks, hp, size, i + 1, best, min_waste)

\* the best-fit scan of allocate_memory: i is the 0-based loop index,
\* best the 0-based best_block_index (-1: best_block is None). min_waste
\* starts at float('inf'): while best is -1 every waste is below it.
RECURSIVE BestFitScan(_, _, _, _, _, _)
BestFitScan(blocks, hp, size, i, best, min_waste) ==
    IF i >= Len(blocks) THEN best
    ELSE LET block == hp[blocks[i + 1]]
             waste == block.size - size
         IN IF block.is_free /\ block.size >= size
               /\ (best = -1 \/ waste < min_waste)
            THEN BestFitScan(blocks, hp, size, i + 1, i, waste)
            ELSE BestFitScan(blocks, hp, size, i + 1, best, min_waste)

\* a mutant of the split: the chosen block keeps its size
SplitBlock_noshrink(self, best_block_index, size) ==
    LET ref == self.memory_blocks[best_block_index + 1]
        best_block == self.heap[ref]
    IN IF best_block.size > size
       THEN LET new == NewId(self.heap)
                new_block == MemoryBlock(best_block.start + size,
                                         best_block.size - size, TRUE)
            IN [self EXCEPT
                  !.memory_blocks = ListInsert(@, best_block_index + 1, new),
                  !.heap = (new :> new_block) @@ @]
       ELSE self

\* a mutant of the split: the remainder is appended to the list
SplitBlock_append(self, best_block_index, size) ==
    LET ref == self.memory_blocks[best_block_index + 1]
        best_block == self.heap[ref]
    IN IF best_block.size > size
       THEN LET new == NewId(self.heap)
                new_block == MemoryBlock(best_block.start + size,
                                         best_block.size - size, TRUE)
            IN [self EXCEPT
                  !.memory_blocks = Append(@, new),
                  !.heap = (new :> new_block) @@
                           [@ EXCEPT ![ref].size = size]]
       ELSE self

\* lines 63-71: split the chosen block when it is larger than the request
SplitBlock(self, best_block_index, size) ==
    LET ref == self.memory_blocks[best_block_index + 1]
        best_block == self.heap[ref]
    IN IF best_block.size > size
       THEN LET new == NewId(self.heap)
                new_block == MemoryBlock(best_block.start + size,
                                         best_block.size - size, TRUE)
            IN [self EXCEPT
                  !.memory_blocks = ListInsert(@, best_block_index + 1, new),
                  !.heap = (new :> new_block) @@
                           [@ EXCEPT ![ref].size = size]]
       ELSE self

\* a mutant of the assignment: the block is not registered under the process
AssignBlock_noindex(self, ref, process_id, size) ==
    [self EXCEPT
       !.heap = [@ EXCEPT ![ref].is_free = FALSE,
                          ![ref].process_id = process_id,
                          ![ref].allocated_at = "now"],
       !.used_memory = @ + size]

\* lines 73-82: tag the block, count it, register it under the process
AssignBlock(self, ref, process_id, size) ==
    [self EXCEPT
       !.heap = [@ EXCEPT ![ref].is_free = FALSE,
                          ![ref].process_id = process_id,
                          ![ref].allocated_at = "now"],
       !.used_memory = @ + size,
       !.process_memory =
           IF process_id \in DOMAIN @
           THEN [@ EXCEPT ![process_id] = Append(@, ref)]
           ELSE (process_id :> <<ref>>) @@ @]

\* a mutant of allocate_memory: the size is not checked before the scan
allocate_memory_nocheck(self, process_id, size) ==
    LET best_block_index ==
            BestFitScan(self.memory_blocks, self.heap, size, 0, -1, 0)
    IN IF best_block_index = -1
       THEN [self |-> self, ret |-> None]
       ELSE LET ref == self.memory_blocks[best_block_index + 1]
                split == SplitBlock(self, best_block_index, size)
                done == AssignBlock(split, ref, process_id, size)
            IN [self |-> done, ret |-> done.heap[ref].start]

\* MemoryManager.allocate_memory: the manager afterwards, and the return value
allocate_memory(self, process_id, size) ==
    IF size <= 0 \/ size > total_memory
    THEN [self |-> self, ret |-> None]
    ELSE LET best_block_index ==
                 BestFitScan(self.memory_blocks, self.heap, size, 0, -1, 0)
         IN IF best_block_index = -1
            THEN [self |-> self, ret |-> None]
            ELSE LET ref == self.memory_blocks[best_block_index + 1]
                     split == SplitBlock(self, best_block_index, size)
                     done == AssignBlock(split, ref, process_id, size)
                 IN [self |-> done, ret |-> done.heap[ref].start]

\* a mutant of the loop: it stops after the first block of the list
FreeBlocks_first(self, refs, k) ==
    IF k > Len(refs) THEN self
    ELSE LET ref == refs[k]
         IN [self EXCEPT
               !.heap = [@ EXCEPT ![ref].is_free = TRUE,
                                  ![ref].process_id = None,
                                  ![ref].allocated_at = "None"],
               !.used_memory = @ - self.heap[ref].size]

\* a mutant of the loop: used_memory is left as it is
RECURSIVE FreeBlocks_nocount(_, _, _)
FreeBlocks_nocount(self, refs, k) ==
    IF k > Len(refs) THEN self
    ELSE LET ref == refs[k]
         IN FreeBlocks_nocount(
              [self EXCEPT
                 !.heap = [@ EXCEPT ![ref].is_free = TRUE,
                                    ![ref].process_id = None,
                                    ![ref].allocated_at = "None"]],
              refs, k + 1)

\* lines 100-104: free every block the process's list refers to
RECURSIVE FreeBlocks(_, _, _)
FreeBlocks(self, refs, k) ==
    IF k > Len(refs) THEN self
    ELSE LET ref == refs[k]
         IN FreeBlocks(
              [self EXCEPT
                 !.heap = [@ EXCEPT ![ref].is_free = TRUE,
                                    ![ref].process_id = None,
                                    ![ref].allocated_at = "None"],
                 !.used_memory = @ - self.heap[ref].size],
              refs, k + 1)

\* a mutant of the coalescing pass: the index advances after a merge too
RECURSIVE compact_free_blocks_skip(_, _, _)
compact_free_blocks_skip(blocks, hp, i) ==
    IF ~(i < Len(blocks) - 1) THEN [memory_blocks |-> blocks, heap |-> hp]
    ELSE LET current == blocks[i + 1]
             next_block == blocks[i + 2]
         IN IF hp[current].is_free /\ hp[next_block].is_free
            THEN compact_free_blocks_skip(
                   ListPop(blocks, i + 1),
                   [hp EXCEPT ![current].size = @ + hp[next_block].size],
                   i + 1)
            ELSE compact_free_blocks_skip(blocks, hp, i + 1)

\* a mutant of the coalescing pass: a free block takes in its neighbour
\* whether that is free or not
RECURSIVE compact_free_blocks_eager(_, _, _)
compact_free_blocks_eager(blocks, hp, i) ==
    IF ~(i < Len(blocks) - 1) THEN [memory_blocks |-> blocks, heap |-> hp]
    ELSE LET current == blocks[i + 1]
             next_block == blocks[i + 2]
         IN IF hp[current].is_free
            THEN compact_free_blocks_eager(
                   ListPop(blocks, i + 1),
                   [hp EXCEPT ![current].size = @ + hp[next_block].size],
                   i)
            ELSE compact_free_blocks_eager(blocks, hp, i + 1)

\* a mutant of the coalescing pass: it stops after its first merge
RECURSIVE compact_free_blocks_once(_, _, _)
compact_free_blocks_once(blocks, hp, i) ==
    IF ~(i < Len(blocks) - 1) THEN [memory_blocks |-> blocks, heap |-> hp]
    ELSE LET current == blocks[i + 1]
             next_block == blocks[i + 2]
         IN IF hp[current].is_free /\ hp[next_block].is_free
            THEN [memory_blocks |-> ListPop(blocks, i + 1),
                  heap |-> [hp EXCEPT ![current].size = @ + hp[next_block].size]]
            ELSE compact_free_blocks_once(blocks, hp, i + 1)

\* MemoryManager._compact_free_blocks: the while loop from index i on
RECURSIVE compact_free_blocks(_, _, _)
compact_free_blocks(blocks, hp, i) ==
    IF ~(i < Len(blocks) - 1) THEN [memory_blocks |-> blocks, heap |-> hp]
    ELSE LET current == blocks[i + 1]
             next_block == blocks[i + 2]
         IN IF hp[current].is_free /\ hp[next_block].is_free
            THEN compact_free_blocks(
                   ListPop(blocks, i + 1),
                   [hp EXCEPT ![current].size = @ + hp[next_block].size],
                   i)
            ELSE compact_free_blocks(blocks, hp, i + 1)

\* a mutant of deallocate_memory: the coalescing pass is not run
deallocate_memory_nocompact(self, process_id) ==
    IF process_id \notin DOMAIN self.process_memory
    THEN [self |-> self, ret |-> FALSE]
    ELSE LET freed == FreeBlocks(self, self.process_memory[process_id], 1)
             pm == [p \in DOMAIN freed.process_memory \ {process_id}
                        |-> freed.process_memory[p]]
         IN [self |-> [freed EXCEPT !.process_memory = pm], ret |-> TRUE]

\* a mutant of deallocate_memory: a process without an entry is reported as
\* freed
deallocate_memory_anyowner(self, process_id) ==
    IF process_id \notin DOMAIN self.process_memory
    THEN [self |-> self, ret |-> TRUE]
    ELSE LET freed == FreeBlocks(self, self.process_memory[process_id], 1)
             pm == [p \in DOMAIN freed.process_memory \ {process_id}
                        |-> freed.process_memory[p]]
             c == compact_free_blocks(freed.memory_blocks, freed.heap, 0)
         IN [self |-> [freed EXCEPT !.process_memory = pm,
                                    !.memory_blocks = c.memory_blocks,
                                    !.heap = c.heap],
             ret |-> TRUE]

\* a mutant of deallocate_memory: the process keeps its entry in the index
deallocate_memory_keepentry(self, process_id) ==
    IF process_id \notin DOMAIN self.process_memory
    THEN [self |-> self, ret |-> FALSE]
    ELSE LET freed == FreeBlocks(self, self.process_memory[process_id], 1)
             c == compact_free_blocks(freed.memory_blocks, freed.heap, 0)
         IN [self |-> [freed EXCEPT !.memory_blocks = c.memory_blocks,
                                    !.heap = c.heap],
             ret |-> TRUE]

\* MemoryManager.deallocate_memory: the manager afterwards, and the return value
deallocate_memory(self, process_id) ==
    IF process_id \notin DOMAIN self.process_memory
    THEN [self |-> self, ret |-> FALSE]
    ELSE LET freed == FreeBlocks(self, self.process_memory[process_id], 1)
             pm == [p \in DOMAIN freed.process_memory \ {process_id}
                        |-> freed.process_memory[p]]
             c == compact_free_blocks(freed.memory_blocks, freed.heap, 0)
         IN [self |-> [freed EXCEPT !.process_memory = pm,
                                    !.memory_blocks = c.memory_blocks,
                                    !.heap = c.heap],
             ret |-> TRUE]

\* All the references the manager holds, in the order memory_blocks, then each
\* process's list by process id.
RECURSIVE AllRefs(_, _, _)
AllRefs(blocks, pm, k) ==
    IF k > Len(PidList) THEN blocks
    ELSE AllRefs(blocks \o (IF PidList[k] \in DOMAIN pm THEN pm[PidList[k]]
                            ELSE << >>),
                 pm, k + 1)

\* the distinct references of a list, in the order of their first occurrence
RECURSIVE Distinct(_, _, _)
Distinct(all, k, acc) ==
    IF k > Len(all) THEN acc
    ELSE Distinct(all, k + 1,
                  IF all[k] \in RefsOf(acc) THEN acc ELSE Append(acc, all[k]))

\* Object ids are not observable in Python: after each call the live objects
\* are renumbered by their first occurrence in AllRefs, and the objects that
\* nothing refers to are collected.
Canon(self) ==
    LET ord == Distinct(AllRefs(self.memory_blocks, self.process_memory, 1),
                        1, << >>)
        rank == [r \in RefsOf(ord) |-> CHOOSE n \in 1..Len(ord) : ord[n] = r]
        ren(list) == [i \in 1..Len(list) |-> rank[list[i]]]
    IN [memory_blocks |-> ren(self.memory_blocks),
        heap |-> [n \in 1..Len(ord) |-> self.heap[ord[n]]],
        used_memory |-> self.used_memory,
        process_memory |-> [p \in DOMAIN self.process_memory |->
                               ren(self.process_memory[p])]]

\* the manager's fields after a call
MMStore(self) ==
    \E c \in {Canon(self)} :
        /\ memory_blocks' = c.memory_blocks
        /\ heap' = c.heap
        /\ used_memory' = c.used_memory
        /\ process_memory' = c.process_memory

\* one more call made
MMCount == mm_ncalls' = IF mm_ncalls < CallCap THEN mm_ncalls + 1 ELSE mm_ncalls

\* the record of a call: its arguments, what it returned (ret: the address or
\* None of allocate_memory, ok: the bool of deallocate_memory, usage: the dict
\* of get_memory_usage), and from the state it was made in, the number of
\* blocks the process held and the number of blocks in the list
MMCall(op, process_id, size, ret) ==
    [op |-> op, process_id |-> process_id, size |-> size,
     ret |-> IF op = "allocate_memory" THEN ret ELSE None,
     ok |-> IF op = "deallocate_memory" THEN ret ELSE FALSE,
     usage |-> IF op = "get_memory_usage" THEN <<ret>> ELSE << >>,
     held |-> IF process_id \in DOMAIN process_memory
              THEN Len(process_memory[process_id]) ELSE 0,
     nblocks |-> Len(memory_blocks)]

\* a call allocate_memory(process_id, size)
AllocateMemory ==
    \E process_id \in Pids, size \in Sizes :
        \E r \in {allocate_memory(MMSelf, process_id, size)} :
            /\ MMStore(r.self)
            /\ mm_call' = MMCall("allocate_memory", process_id, size, r.ret)
            /\ MMCount
            /\ UNCHANGED <<fs_vars, sh_vars>>

\* a call deallocate_memory(process_id)
DeallocateMemory ==
    \E process_id \in Pids :
        \E r \in {deallocate_memory(MMSelf, process_id)} :
            /\ MMStore(r.self)
            /\ mm_call' = MMCall("deallocate_memory", process_id, None, r.ret)
            /\ MMCount
            /\ UNCHANGED <<fs_vars, sh_vars>>

\* a mutant of get_memory_usage: the processes are counted in place of the
\* allocated blocks
get_memory_usage_owners(self) ==
    LET idx == 1..Len(self.memory_blocks)
        blk(i) == self.heap[self.memory_blocks[i]]
        free == {i \in idx : blk(i).is_free}
        RECURSIVE Sum(_)
        Sum(is) == IF is = {} THEN 0
                   ELSE LET i == CHOOSE j \in is : TRUE
                        IN blk(i).size + Sum(is \ {i})
    IN [total_memory |-> total_memory,
        used_memory |-> self.used_memory,
        free_memory |-> Sum(free),
        total_blocks |-> Len(self.memory_blocks),
        free_blocks |-> Cardinality(free),
        allocated_blocks |-> Cardinality(DOMAIN self.process_memory)]

\* MemoryManager.get_memory_usage
get_memory_usage(self) ==
    LET idx == 1..Len(self.memory_blocks)
        blk(i) == self.heap[self.memory_blocks[i]]
        free == {i \in idx : blk(i).is_free}
        RECURSIVE Sum(_)
        Sum(is) == IF is = {} THEN 0
                   ELSE LET i == CHOOSE j \in is : TRUE
                        IN blk(i).size + Sum(is \ {i})
    IN [total_memory |-> total_memory,
        used_memory |-> self.used_memory,
        free_memory |-> Sum(free),
        total_blocks |-> Len(self.memory_blocks),
        free_blocks |-> Cardinality(free),
        allocated_blocks |-> Cardinality(idx \ free)]

\* a call get_memory_usage()
GetMemoryUsage ==
    \E r \in {get_memory_usage(MMSelf)} :
        /\ MMStore(MMSelf)
        /\ mm_call' = MMCall("get_memory_usage", None, None, r)
        /\ MMCount
        /\ UNCHANGED <<fs_vars, sh_vars>>

(***************************************************************************)
(* Python strings and dicts                                                *)
(***************************************************************************)

\* str.strip("/"): drop the leading slashes
RECURSIVE LStrip(_)
LStrip(s) == IF Len(s) > 0 /\ s[1] = "/" THEN LStrip(Tail(s)) ELSE s

\* str.strip("/"): drop the trailing slashes
RECURSIVE RStrip(_)
RStrip(s) ==
    IF Len(s) > 0 /\ s[Len(s)] = "/" THEN RStrip(SubSeq(s, 1, Len(s) - 1)) ELSE s

\* str.strip("/")
Strip(s) == RStrip(LStrip(s))

\* str.split("/") from position k on: cur is the part being read
RECURSIVE SplitFrom(_, _, _, _)
SplitFrom(s, k, cur, acc) ==
    IF k > Len(s) THEN Append(acc, cur)
    ELSE IF s[k] = "/" THEN SplitFrom(s, k + 1, << >>, Append(acc, cur))
    ELSE SplitFrom(s, k + 1, Append(cur, s[k]), acc)

\* str.split("/"): "" splits to [""], "a//b" to ["a", "", "b"]
Split(s) == SplitFrom(s, 1, << >>, << >>)

\* "/".join(parts)
RECURSIVE Join(_)
Join(parts) ==
    IF Len(parts) = 0 THEN << >>
    ELSE IF Len(parts) = 1 THEN parts[1]
    ELSE parts[1] \o <<"/">> \o Join(Tail(parts))

\* str.startswith("/")
StartsWithSlash(s) == Len(s) > 0 /\ s[1] = "/"

\* os.path.join(a, b) of posixpath
os_path_join(a, b) ==
    IF StartsWithSlash(b) THEN b
    ELSE IF Len(a) = 0 \/ a[Len(a)] = "/" THEN a \o b
    ELSE a \o <<"/">> \o b

\* A dict is the sequence of its <<key, value>> pairs in insertion order.
DictKeys(d) == [i \in 1..Len(d) |-> d[i][1]]

\* dict.values()
DictValues(d) == [i \in 1..Len(d) |-> d[i][2]]

\* key in d
DictHas(d, k) == \E i \in 1..Len(d) : d[i][1] = k

\* d[key]
DictGet(d, k) == d[CHOOSE i \in 1..Len(d) : d[i][1] = k][2]

\* d[key] = value: a new key goes last, a present key keeps its place
DictSet(d, k, v) ==
    IF DictHas(d, k)
    THEN [i \in 1..Len(d) |-> IF d[i][1] = k THEN <<k, v>> ELSE d[i]]
    ELSE Append(d, <<k, v>>)

\* del d[key]
DictDel(d, k) == SelectSeq(d, LAMBDA e : e[1] # k)

(***************************************************************************)
(* Virtual file store: core/file_system.py                                 *)
(*                                                                         *)
(* A node is a value: each File and Directory object is created by one     *)
(* create call (or by from_dict) and stored under exactly one parent, so   *)
(* no two references alias and an in-place update through a reference is   *)
(* the replacement of the node at its place in the tree.                   *)
(***************************************************************************)

\* File.__init__
File(name, content) ==
    [kind |-> "File", name |-> name, content |-> content,
     size |-> Len(content), permissions |-> "rw-r--r--"]

\* Directory.__init__
Directory(name) ==
    [kind |-> "Directory", name |-> name, items |-> << >>,
     permissions |-> "rwxr-xr-x"]

\* isinstance(x, Directory) for the result of get_item
IsDirectory(found) == found.tag = "node" /\ found.node.kind = "Directory"

\* File.to_dict
File_to_dict(file) ==
    [name |-> file.name, content |-> file.content, size |-> file.size,
     permissions |-> file.permissions]

\* Directory.to_dict, and File.to_dict for a child that is a File
RECURSIVE to_dict(_)
to_dict(item) ==
    IF item.kind = "File" THEN File_to_dict(item)
    ELSE [name |-> item.name,
          items |-> [i \in 1..Len(item.items) |->
                        <<item.items[i][1], to_dict(item.items[i][2])>>],
          permissions |-> item.permissions]

\* File.from_dict
File_from_dict(data) ==
    [File(data.name, data.content) EXCEPT
        !.size = data.size, !.permissions = data.permissions]

\* a mutant of Directory.from_dict: a child directory is made without its items
Directory_from_dict_shallow(data) ==
    [Directory(data.name) EXCEPT
        !.permissions = data.permissions,
        !.items = [i \in 1..Len(data.items) |->
                     <<data.items[i][1],
                       IF "content" \in DOMAIN data.items[i][2]
                       THEN File_from_dict(data.items[i][2])
                       ELSE [Directory(data.items[i][2].name) EXCEPT
                               !.permissions = data.items[i][2].permissions]>>]]

\* Directory.from_dict: a child whose data has the key "content" is a File
RECURSIVE Directory_from_dict(_)
Directory_from_dict(data) ==
    [Directory(data.name) EXCEPT
        !.permissions = data.permissions,
        !.items = [i \in 1..Len(data.items) |->
                     <<data.items[i][1],
                       IF "content" \in DOMAIN data.items[i][2]
                       THEN File_from_dict(data.items[i][2])
                       ELSE Directory_from_dict(data.items[i][2])>>]]

\* the for loop of get_item from part k on
RECURSIVE Walk(_, _, _)
Walk(current, parts, k) ==
    IF k > Len(parts) THEN [tag |-> "node", node |-> current, loc |-> parts]
    ELSE IF current.kind = "File"
         THEN [tag |-> "AttributeError"]   \* a File has no attribute items
    ELSE IF ~DictHas(current.items, parts[k]) THEN [tag |-> "None"]
    ELSE Walk(DictGet(current.items, parts[k]), parts, k + 1)

\* FileSystem.get_item: the node and the keys that lead to it from the root
get_item(rt, path) ==
    IF path = <<"/">> THEN [tag |-> "node", node |-> rt, loc |-> << >>]
    ELSE Walk(rt, Split(Strip(path)), 1)

\* the tree with the node at loc (from key k on) replaced by new
RECURSIVE ReplaceAt(_, _, _, _)
ReplaceAt(node, loc, k, new) ==
    IF k > Len(loc) THEN new
    ELSE [node EXCEPT !.items =
             DictSet(node.items, loc[k],
                     ReplaceAt(DictGet(node.items, loc[k]), loc, k + 1, new))]

\* the store's fields as one value
FSSelf == [root |-> root, disk |-> disk]

\* a call that raises: nothing was assigned before the raise
Raise(self, exc, msg) == [self |-> self, exc |-> exc, msg |-> msg, ret |-> "None"]

\* a call that returns
Return(self, ret) == [self |-> self, exc |-> "None", msg |-> "", ret |-> ret]

\* FileSystem.save: the whole tree is written as one JSON document
save(self) == [self EXCEPT !.disk = [state |-> "ok", data |-> to_dict(self.root)]]

\* File.from_dict raises KeyError: the document lacks a key it reads
File_from_dict_raises(data) ==
    ~({"name", "content", "size", "permissions"} \subseteq DOMAIN data)

\* Directory.from_dict raises KeyError: the document, or the document of a
\* child, lacks a key that is read
RECURSIVE Directory_from_dict_raises(_)
Directory_from_dict_raises(data) ==
    \/ ~({"name", "permissions", "items"} \subseteq DOMAIN data)
    \/ \E i \in 1..Len(data.items) :
          IF "content" \in DOMAIN data.items[i][2]
          THEN File_from_dict_raises(data.items[i][2])
          ELSE Directory_from_dict_raises(data.items[i][2])

\* FileSystem.load: a missing file is skipped, and an exception of json.load
\* (the text is no JSON document) or of from_dict (a key is missing) is
\* caught, before self.root is assigned
load(self) ==
    IF self.disk.state = "ok" /\ ~Directory_from_dict_raises(self.disk.data)
    THEN [self EXCEPT !.root = Directory_from_dict(self.disk.data)]
    ELSE self

\* a mutant of create_file: the name is not looked up before the insertion
create_file_overwrite(self, directory, name, content) ==
    LET parent == get_item(self.root, directory)
    IN IF parent.tag = "AttributeError"
       THEN Raise(self, "AttributeError", "items")
       ELSE IF ~IsDirectory(parent)
       THEN Raise(self, "ValueError", "Directorio no encontrado")
       ELSE LET file == File(name, content)
                new == [parent.node EXCEPT !.items = DictSet(@, name, file)]
            IN Return(save([self EXCEPT
                              !.root = ReplaceAt(@, parent.loc, 1, new)]),
                      file)

\* a mutant of create_file: the new file is put first in its directory
create_file_first(self, directory, name, content) ==
    LET parent == get_item(self.root, directory)
    IN IF parent.tag = "AttributeError"
       THEN Raise(self, "AttributeError", "items")
       ELSE IF ~IsDirectory(parent)
       THEN Raise(self, "ValueError", "Directorio no encontrado")
       ELSE IF DictHas(parent.node.items, name)
       THEN Raise(self, "ValueError", "Archivo ya existe")
       ELSE LET file == File(name, content)
                new == [parent.node EXCEPT !.items = <<<<name, file>>>> \o @]
            IN Return(save([self EXCEPT
                              !.root = ReplaceAt(@, parent.loc, 1, new)]),
                      file)

\* FileSystem.create_file
create_file(self, directory, name, content) ==
    LET parent == get_item(self.root, directory)
    IN IF parent.tag = "AttributeError"
       THEN Raise(self, "AttributeError", "items")
       ELSE IF ~IsDirectory(parent)
       THEN Raise(self, "ValueError", "Directorio no encontrado")
       ELSE IF DictHas(parent.node.items, name)
       THEN Raise(self, "ValueError", "Archivo ya existe")
       ELSE LET file == File(name, content)
                new == [parent.node EXCEPT !.items = DictSet(@, name, file)]
            IN Return(save([self EXCEPT
                              !.root = ReplaceAt(@, parent.loc, 1, new)]),
                      file)

\* FileSystem.read_file
read_file(self, directory, name) ==
    LET parent == get_item(self.root, directory)
    IN IF parent.tag = "AttributeError"
       THEN Raise(self, "AttributeError", "items")
       ELSE IF ~IsDirectory(parent)
       THEN Raise(self, "ValueError", "Directorio no encontrado")
       ELSE IF ~DictHas(parent.node.items, name)
       THEN Raise(self, "ValueError", "Archivo no encontrado")
       ELSE LET file == DictGet(parent.node.items, name)
            IN IF file.kind # "File"
               THEN Raise(self, "ValueError", "No es un archivo")
               ELSE Return(self, file.content)

\* a mutant of write_file: the content is appended to what the file holds
write_file_append(self, directory, name, content) ==
    LET parent == get_item(self.root, directory)
    IN IF parent.tag = "AttributeError"
       THEN Raise(self, "AttributeError", "items")
       ELSE IF ~IsDirectory(parent)
       THEN Raise(self, "ValueError", "Directorio no encontrado")
       ELSE IF ~DictHas(parent.node.items, name)
       THEN Raise(self, "ValueError", "Archivo no encontrado")
       ELSE LET file == DictGet(parent.node.items, name)
            IN IF file.kind # "File"
               THEN Raise(self, "ValueError", "No es un archivo")
               ELSE LET written == [file EXCEPT !.content = @ \o content,
                                                !.size = Len(file.content \o content)]
                        new == [parent.node EXCEPT
                                   !.items = DictSet(@, name, written)]
                    IN Return(save([self EXCEPT
                                      !.root = ReplaceAt(@, parent.loc, 1, new)]),
                              "None")

\* a mutant of write_file: a name the directory does not hold is created
write_file_create(self, directory, name, content) ==
    LET parent == get_item(self.root, directory)
    IN IF parent.tag = "AttributeError"
       THEN Raise(self, "AttributeError", "items")
       ELSE IF ~IsDirectory(parent)
       THEN Raise(self, "ValueError", "Directorio no encontrado")
       ELSE LET file == IF DictHas(parent.node.items, name)
                        THEN DictGet(parent.node.items, name)
                        ELSE File(name, << >>)
            IN IF file.kind # "File"
               THEN Raise(self, "ValueError", "No es un archivo")
               ELSE LET written == [file EXCEPT !.content = content,
                                                !.size = Len(content)]
                        new == [parent.node EXCEPT
                                   !.items = DictSet(@, name, written)]
                    IN Return(save([self EXCEPT
                                      !.root = ReplaceAt(@, parent.loc, 1, new)]),
                              "None")

\* FileSystem.write_file
write_file(self, directory, name, content) ==
    LET parent == get_item(self.root, directory)
    IN IF parent.tag = "AttributeError"
       THEN Raise(self, "AttributeError", "items")
       ELSE IF ~IsDirectory(parent)
       THEN Raise(self, "ValueError", "Directorio no encontrado")
       ELSE IF ~DictHas(parent.node.items, name)
       THEN Raise(self, "ValueError", "Archivo no encontrado")
       ELSE LET file == DictGet(parent.node.items, name)
            IN IF file.kind # "File"
               THEN Raise(self, "ValueError", "No es un archivo")
               ELSE LET written == [file EXCEPT !.content = content,
                                                !.size = Len(content)]
                        new == [parent.node EXCEPT
                                   !.items = DictSet(@, name, written)]
                    IN Return(save([self EXCEPT
                                      !.root = ReplaceAt(@, parent.loc, 1, new)]),
                              "None")

\* a mutant of delete: the directory's first entry is removed, whatever its
\* name
delete_first(self, directory, name) ==
    LET parent == get_item(self.root, directory)
    IN IF parent.tag = "AttributeError"
       THEN Raise(self, "AttributeError", "items")
       ELSE IF ~IsDirectory(parent)
       THEN Raise(self, "ValueError", "Directorio no encontrado")
       ELSE IF ~DictHas(parent.node.items, name)
       THEN Raise(self, "ValueError", "Item no encontrado")
       ELSE LET new == [parent.node EXCEPT !.items = Tail(@)]
            IN Return(save([self EXCEPT
                              !.root = ReplaceAt(@, parent.loc, 1, new)]),
                      "None")

\* FileSystem.delete
delete(self, directory, name) ==
    LET parent == get_item(self.root, directory)
    IN IF parent.tag = "AttributeError"
       THEN Raise(self, "AttributeError", "items")
       ELSE IF ~IsDirectory(parent)
       THEN Raise(self, "ValueError", "Directorio no encontrado")
       ELSE IF ~DictHas(parent.node.items, name)
       THEN Raise(self, "ValueError", "Item no encontrado")
       ELSE LET new == [parent.node EXCEPT !.items = DictDel(@, name)]
            IN Return(save([self EXCEPT
                              !.root = ReplaceAt(@, parent.loc, 1, new)]),
                      "None")

\* a mutant of create_directory: the document is not written
create_directory_nosave(self, parent_dir, name) ==
    LET parent == get_item(self.root, parent_dir)
    IN IF parent.tag = "AttributeError"
       THEN Raise(self, "AttributeError", "items")
       ELSE IF ~IsDirectory(parent)
       THEN Raise(self, "ValueError", "Directorio no encontrado")
       ELSE IF DictHas(parent.node.items, name)
       THEN Raise(self, "ValueError", "Directorio ya existe")
       ELSE LET directory == Directory(name)
                new == [parent.node EXCEPT !.items = DictSet(@, name, directory)]
            IN Return([self EXCEPT !.root = ReplaceAt(@, parent.loc, 1, new)],
                      directory)

\* FileSystem.create_directory
create_directory(self, parent_dir, name) ==
    LET parent == get_item(self.root, parent_dir)
    IN IF parent.tag = "AttributeError"
       THEN Raise(self, "AttributeError", "items")
       ELSE IF ~IsDirectory(parent)
       THEN Raise(self, "ValueError", "Directorio no encontrado")
       ELSE IF DictHas(parent.node.items, name)
       THEN Raise(self, "ValueError", "Directorio ya existe")
       ELSE LET directory == Directory(name)
                new == [parent.node EXCEPT !.items = DictSet(@, name, directory)]
            IN Return(save([self EXCEPT
                              !.root = ReplaceAt(@, parent.loc, 1, new)]),
                      directory)

\* FileSystem.list_directory
list_directory(self, path) ==
    LET directory == get_item(self.root, path)
    IN IF directory.tag = "AttributeError"
       THEN Raise(self, "AttributeError", "items")
       ELSE IF ~IsDirectory(directory)
       THEN Raise(self, "ValueError", "Directorio no encontrado")
       ELSE Return(self, DictValues(directory.node.items))

\* a mutant of change_directory: the parent path is joined without its
\* leading slash
change_directory_noslash(self, current, target) ==
    IF target = <<".", ".">>
    THEN LET parts == Split(Strip(current))
         IN IF Len(parts) > 1
            THEN Return(self, Join(SubSeq(parts, 1, Len(parts) - 1)))
            ELSE Return(self, <<"/">>)
    ELSE LET new_path == IF StartsWithSlash(target) THEN target
                         ELSE os_path_join(current, target)
             directory == get_item(self.root, new_path)
         IN IF directory.tag = "AttributeError"
            THEN Raise(self, "AttributeError", "items")
            ELSE IF ~IsDirectory(directory)
            THEN Raise(self, "ValueError", "Directorio no encontrado")
            ELSE Return(self, new_path)

\* a mutant of change_directory: a path that resolves is returned whatever
\* it resolves to
change_directory_anynode(self, current, target) ==
    IF target = <<".", ".">>
    THEN LET parts == Split(Strip(current))
         IN IF Len(parts) > 1
            THEN Return(self, <<"/">> \o Join(SubSeq(parts, 1, Len(parts) - 1)))
            ELSE Return(self, <<"/">>)
    ELSE LET new_path == IF StartsWithSlash(target) THEN target
                         ELSE os_path_join(current, target)
             directory == get_item(self.root, new_path)
         IN IF directory.tag = "AttributeError"
            THEN Raise(self, "AttributeError", "items")
            ELSE IF directory.tag = "None"
            THEN Raise(self, "ValueError", "Directorio no encontrado")
            ELSE Return(self, new_path)

\* FileSystem.change_directory
change_directory(self, current, target) ==
    IF target = <<".", ".">>
    THEN LET parts == Split(Strip(current))
         IN IF Len(parts) > 1
            THEN Return(self, <<"/">> \o Join(SubSeq(parts, 1, Len(parts) - 1)))
            ELSE Return(self, <<"/">>)
    ELSE LET new_path == IF StartsWithSlash(target) THEN target
                         ELSE os_path_join(current, target)
             directory == get_item(self.root, new_path)
         IN IF directory.tag = "AttributeError"
            THEN Raise(self, "AttributeError", "items")
            ELSE IF ~IsDirectory(directory)
            THEN Raise(self, "ValueError", "Directorio no encontrado")
            ELSE Return(self, new_path)

\* an argument a call does not take
NoArg == <<"None">>

\* CommandInterface.__init__
ShInit ==
    /\ current_dir = <<"/">>
    /\ sh_call = [line |-> << >>, out |-> [text |-> "", arg |-> << >>]]

\* FileSystem.__init__ on a first run: no data file yet, so load() leaves
\* the fresh root
FSInit ==
    /\ root = Directory(<<"/">>)
    /\ disk = [state |-> "missing"]
    /\ fs_call = [op |-> "init", directory |-> NoArg, name |-> NoArg,
                  content |-> NoArg, exc |-> "None", msg |-> "", ret |-> NoArg,
                  nodes |-> << >>, before |-> NoArg, removed |-> << >>]

\* the number of nodes below a node
RECURSIVE CountNodes(_)
RECURSIVE CountItems(_, _)
CountItems(items, k) ==
    IF k > Len(items) THEN 0
    ELSE 1 + CountNodes(items[k][2]) + CountItems(items, k + 1)
CountNodes(node) ==
    IF node.kind = "File" THEN 0 ELSE CountItems(node.items, 1)

\* names and contents passed to the store
Names == {<<"a">>, <<"b">>}
Contents == {<< >>, <<"h", "i">>}
\* directory paths passed to the store: the root, one and two segments, a
\* relative path and a path with a trailing slash
DirPaths == {<<"/">>, <<"/", "a">>, <<"/", "a", "/", "b">>, <<"a">>,
             <<"/", "a", "/">>}
\* targets of change_directory: the parent, a relative and an absolute path
Targets == {<<".", ".">>, <<"b">>, <<"/", "a">>}

\* the store after a call, and the record of the call: its arguments, its
\* outcome (ret: the string a call returned, nodes: the File, Directory or
\* list it returned) and, for write_file, the content the file had when it
\* was called, for a delete that returned, the item it removed
FSStore(r, op, directory, name, content) ==
    /\ root' = r.self.root
    /\ disk' = r.self.disk
    /\ fs_call' = [op |-> op, directory |-> directory, name |-> name,
                   content |-> content, exc |-> r.exc, msg |-> r.msg,
                   ret |-> IF r.exc = "None"
                              /\ op \in {"read_file", "change_directory"}
                           THEN r.ret ELSE NoArg,
                   nodes |-> IF r.exc = "None"
                                /\ op \in {"create_file", "create_directory"}
                             THEN <<r.ret>>
                             ELSE IF r.exc = "None" /\ op = "list_directory"
                             THEN r.ret
                             ELSE << >>,
                   before |-> IF op = "write_file"
                                 /\ read_file(FSSelf, directory, name).exc = "None"
                              THEN read_file(FSSelf, directory, name).ret
                              ELSE NoArg,
                   removed |-> IF op = "delete" /\ r.exc = "None"
                               THEN <<DictGet(get_item(root, directory).node.items,
                                              name)>>
                               ELSE << >>]
    /\ UNCHANGED <<mm_vars, sh_vars>>

CreateFile ==
    /\ CountNodes(root) < MaxNodes
    /\ \E directory \in DirPaths, name \in Names, content \in Contents :
          \E r \in {create_file(FSSelf, directory, name, content)} :
              FSStore(r, "create_file", directory, name, content)

ReadFile ==
    \E directory \in DirPaths, name \in Names :
        \E r \in {read_file(FSSelf, directory, name)} :
            FSStore(r, "read_file", directory, name, NoArg)

WriteFile ==
    \E directory \in DirPaths, name \in Names, content \in Contents :
        \E r \in {write_file(FSSelf, directory, name, content)} :
            FSStore(r, "write_file", directory, name, content)

Delete ==
    \E directory \in DirPaths, name \in Names :
        \E r \in {delete(FSSelf, directory, name)} :
            FSStore(r, "delete", directory, name, NoArg)

CreateDirectory ==
    /\ CountNodes(root) < MaxNodes
    /\ \E parent_dir \in DirPaths, name \in Names :
          \E r \in {create_directory(FSSelf, parent_dir, name)} :
              FSStore(r, "create_directory", parent_dir, name, NoArg)

ListDirectory ==
    \E path \in DirPaths :
        \E r \in {list_directory(FSSelf, path)} :
            FSStore(r, "list_directory", path, NoArg, NoArg)

ChangeDirectory ==
    \E current \in DirPaths, target \in Targets :
        \E r \in {change_directory(FSSelf, current, target)} :
            FSStore(r, "change_directory", current, target, NoArg)

Save ==
    \E r \in {Return(save(FSSelf), "None")} :
        FSStore(r, "save", NoArg, NoArg, NoArg)

Load ==
    \E r \in {Return(load(FSSelf), "None")} :
        FSStore(r, "load", NoArg, NoArg, NoArg)

\* The data file is an ordinary file of the working directory: between two
\* calls it may be removed, overwritten with text that is no JSON document,
\* or left as a JSON document in which the last child of the root lacks its
\* "permissions" key. These are the files load() finds missing or corrupt.
DiskEvent(d) ==
    /\ disk' = d
    /\ fs_call' = [op |-> "data file", directory |-> NoArg, name |-> NoArg,
                   content |-> NoArg, exc |-> "None", msg |-> "", ret |-> NoArg,
                   nodes |-> << >>, before |-> NoArg, removed |-> << >>]
    /\ UNCHANGED <<root, mm_vars, sh_vars>>

RemoveDataFile ==
    /\ disk.state # "missing"
    /\ DiskEvent([state |-> "missing"])

CorruptDataFile ==
    /\ disk.state # "corrupt"
    /\ DiskEvent([state |-> "corrupt"])

DropKey ==
    /\ disk.state = "ok"
    /\ ~Directory_from_dict_raises(disk.data)
    /\ Len(disk.data.items) > 0
    /\ LET n == Len(disk.data.items)
           child == disk.data.items[n][2]
           cut == [k \in DOMAIN child \ {"permissions"} |-> child[k]]
       IN DiskEvent([disk EXCEPT !.data.items[n] = <<@[1], cut>>])

\* the calls and the events on the data file that load() is checked under
DiskNext ==
    \/ CreateFile
    \/ CreateDirectory
    \/ Load
    \/ Save
    \/ RemoveDataFile
    \/ CorruptDataFile
    \/ DropKey

FSNext ==
    \/ CreateFile
    \/ ReadFile
    \/ WriteFile
    \/ Delete
    \/ CreateDirectory
    \/ ListDirectory
    \/ ChangeDirectory
    \/ Save
    \/ Load

(***************************************************************************)
(* Command dispatcher: core/command_interface.py                           *)
(*                                                                         *)
(* A returned string f"<text>{value}" is the pair of its fixed text and    *)
(* the value formatted into it: a name, path or content as its characters, *)
(* the message of an exception as a list of that one message. A command    *)
(* line is the list of its tokens, as command.split() yields them.         *)
(***************************************************************************)

\* the dispatcher's fields, and its store's, as one value
ShSelf == [root |-> root, disk |-> disk, current_dir |-> current_dir]

\* the store part of the dispatcher's state
ShStoreOf(self) == [root |-> self.root, disk |-> self.disk]

\* the dispatcher with its store as a store call left it
ShWith(self, fs) == [self EXCEPT !.root = fs.root, !.disk = fs.disk]

\* a handler's result: the dispatcher afterwards and the string returned
Out(self, text, arg) == [self |-> self, out |-> [text |-> text, arg |-> arg]]

\* str.lower on one character
LowerChar(c) ==
    LET upper == <<"A", "B", "C", "D", "E", "F", "G", "H", "I", "J", "K", "L",
                   "M", "N", "O", "P", "Q", "R", "S", "T", "U", "V", "W", "X",
                   "Y", "Z">>
        lower == <<"a", "b", "c", "d", "e", "f", "g", "h", "i", "j", "k", "l",
                   "m", "n", "o", "p", "q", "r", "s", "t", "u", "v", "w", "x",
                   "y", "z">>
    IN IF \E i \in 1..26 : upper[i] = c
       THEN lower[CHOOSE i \in 1..26 : upper[i] = c]
       ELSE c

\* str.lower
Lower(str) == [i \in 1..Len(str) |-> LowerChar(str[i])]

\* " ".join(args)
RECURSIVE JoinSpace(_)
JoinSpace(args) ==
    IF Len(args) = 0 THEN << >>
    ELSE IF Len(args) = 1 THEN args[1]
    ELSE args[1] \o <<" ">> \o JoinSpace(Tail(args))

\* CommandInterface.mkdir
mkdir(self, args) ==
    IF Len(args) = 0 THEN Out(self, "Uso: mkdir <nombre>", << >>)
    ELSE LET r == create_directory(ShStoreOf(self), self.current_dir, args[1])
         IN IF r.exc = "None"
            THEN Out(ShWith(self, r.self), "Directorio creado: ", args[1])
            ELSE Out(self, "Error al crear directorio: ", <<r.msg>>)

\* CommandInterface.cd
cd(self, args) ==
    IF Len(args) = 0 THEN Out(self, "Uso: cd <ruta>", << >>)
    ELSE LET r == change_directory(ShStoreOf(self), self.current_dir, args[1])
         IN IF r.exc = "None"
            THEN Out([self EXCEPT !.current_dir = r.ret],
                     "Directorio actual: ", r.ret)
            ELSE Out(self, "Error al cambiar directorio: ", <<r.msg>>)

\* CommandInterface.ls: neither File nor Directory has an attribute
\* is_directory, so the loop over a non-empty listing raises at its first
\* item and the handler's except clause returns the error string
ls(self, args) ==
    LET path == IF Len(args) > 0 THEN args[1] ELSE self.current_dir
        r == list_directory(ShStoreOf(self), path)
    IN IF r.exc # "None" THEN Out(self, "Error al listar directorio: ", <<r.msg>>)
       ELSE IF Len(r.ret) = 0 THEN Out(self, "Directorio vacío", << >>)
       ELSE Out(self, "Error al listar directorio: ", <<"is_directory">>)

\* CommandInterface.touch
touch(self, args) ==
    IF Len(args) = 0 THEN Out(self, "Uso: touch <nombre>", << >>)
    ELSE LET r == create_file(ShStoreOf(self), self.current_dir, args[1], << >>)
         IN IF r.exc = "None"
            THEN Out(ShWith(self, r.self), "Archivo creado: ", args[1])
            ELSE Out(self, "Error al crear archivo: ", <<r.msg>>)

\* CommandInterface.cat
cat(self, args) ==
    IF Len(args) = 0 THEN Out(self, "Uso: cat <archivo>", << >>)
    ELSE LET r == read_file(ShStoreOf(self), self.current_dir, args[1])
         IN IF r.exc = "None"
            THEN Out(self, "", r.ret)
            ELSE Out(self, "Error al leer archivo: ", <<r.msg>>)

\* CommandInterface.echo
echo(self, args) ==
    IF Len(args) < 3 \/ args[Len(args) - 1] # <<">">>
    THEN Out(self, "Uso: echo <texto> > <archivo>", << >>)
    ELSE LET text == JoinSpace(SubSeq(args, 1, Len(args) - 2))
             file_name == args[Len(args)]
             r == write_file(ShStoreOf(self), self.current_dir, file_name, text)
         IN IF r.exc = "None"
            THEN Out(ShWith(self, r.self), "Texto escrito en: ", file_name)
            ELSE Out(self, "Error al escribir archivo: ", <<r.msg>>)

\* CommandInterface.rm
rm(self, args) ==
    IF Len(args) = 0 THEN Out(self, "Uso: rm <archivo>", << >>)
    ELSE LET r == delete(ShStoreOf(self), self.current_dir, args[1])
         IN IF r.exc = "None"
            THEN Out(ShWith(self, r.self), "Eliminado: ", args[1])
            ELSE Out(self, "Error al eliminar: ", <<r.msg>>)

\* CommandInterface.pwd
pwd(self, args) == Out(self, "", self.current_dir)

\* CommandInterface.help
help(self, args) == Out(self, "Comandos disponibles:", << >>)

\* CommandInterface.exit
exit(self, args) == Out(self, "exit", << >>)

\* a mutant of execute_command: the command name is looked up as typed
execute_command_nolower(self, parts) ==
    IF Len(parts) = 0 THEN Out(self, "", << >>)
    ELSE LET cmd == parts[1]
             args == Tail(parts)
         IN CASE cmd = <<"h", "e", "l", "p">> -> help(self, args)
              [] cmd = <<"m", "k", "d", "i", "r">> -> mkdir(self, args)
              [] cmd = <<"c", "d">> -> cd(self, args)
              [] cmd = <<"l", "s">> -> ls(self, args)
              [] cmd = <<"t", "o", "u", "c", "h">> -> touch(self, args)
              [] cmd = <<"c", "a", "t">> -> cat(self, args)
              [] cmd = <<"e", "c", "h", "o">> -> echo(self, args)
              [] cmd = <<"r", "m">> -> rm(self, args)
              [] cmd = <<"p", "w", "d">> -> pwd(self, args)
              [] cmd = <<"e", "x", "i", "t">> -> exit(self, args)
              [] OTHER -> Out(self, "Comando no encontrado: ", cmd)

\* CommandInterface.execute_command on the tokens of the command line
execute_command(self, parts) ==
    IF Len(parts) = 0 THEN Out(self, "", << >>)
    ELSE LET cmd == Lower(parts[1])
             args == Tail(parts)
         IN CASE cmd = <<"h", "e", "l", "p">> -> help(self, args)
              [] cmd = <<"m", "k", "d", "i", "r">> -> mkdir(self, args)
              [] cmd = <<"c", "d">> -> cd(self, args)
              [] cmd = <<"l", "s">> -> ls(self, args)
              [] cmd = <<"t", "o", "u", "c", "h">> -> touch(self, args)
              [] cmd = <<"c", "a", "t">> -> cat(self, args)
              [] cmd = <<"e", "c", "h", "o">> -> echo(self, args)
              [] cmd = <<"r", "m">> -> rm(self, args)
              [] cmd = <<"p", "w", "d">> -> pwd(self, args)
              [] cmd = <<"e", "x", "i", "t">> -> exit(self, args)
              [] OTHER -> Out(self, "Comando no encontrado: ", cmd)

\* names typed at the prompt
ShNames == {<<"a">>, <<"b">>}
\* targets typed after cd: the parent, relative and absolute paths, and a
\* path through a child
CdTargets == {<<".", ".">>, <<"a">>, <<"b">>, <<"/">>, <<"/", "a">>,
              <<"a", "/", "b">>}
\* paths typed after ls
LsPaths == {<<"/">>, <<"a">>}
\* texts typed after echo, as their tokens
EchoTexts == {<<<<"h", "i">>, <<"h", "i">>>>}

\* the command lines of one command: without an argument, and with each of args
Lines(cmd, args) == {<<cmd>>} \cup {<<cmd>> \o a : a \in args}

\* the dispatcher and its store after a command line, and the record of it
ShStore(r, line) ==
    /\ root' = r.self.root
    /\ disk' = r.self.disk
    /\ current_dir' = r.self.current_dir
    /\ sh_call' = [line |-> line, out |-> r.out]
    /\ UNCHANGED <<mm_vars, fs_call>>

\* mkdir is typed only while the tree is below the model's size
ShMkdir ==
    /\ CountNodes(root) < MaxNodes
    /\ \E line \in Lines(<<"m", "k", "d", "i", "r">>, {<<n>> : n \in ShNames}) :
          \E r \in {execute_command(ShSelf, line)} : ShStore(r, line)

\* touch is typed only while the tree is below the model's size
ShTouch ==
    /\ CountNodes(root) < MaxNodes
    /\ \E line \in Lines(<<"t", "o", "u", "c", "h">>, {<<n>> : n \in ShNames}) :
          \E r \in {execute_command(ShSelf, line)} : ShStore(r, line)

ShEcho ==
    \E line \in Lines(<<"e", "c", "h", "o">>,
                      {t \o <<<<">">>, n>> : t \in EchoTexts, n \in ShNames}) :
        \E r \in {execute_command(ShSelf, line)} : ShStore(r, line)

ShRm ==
    \E line \in Lines(<<"r", "m">>, {<<n>> : n \in ShNames}) :
        \E r \in {execute_command(ShSelf, line)} : ShStore(r, line)

\* cd, and once in capitals
ShCd ==
    \E line \in Lines(<<"c", "d">>, {<<t>> : t \in CdTargets})
                \cup {<<<<"C", "D">>, <<"a">>>>} :
        \E r \in {execute_command(ShSelf, line)} : ShStore(r, line)

ShLs ==
    \E line \in Lines(<<"l", "s">>, {<<q>> : q \in LsPaths}) :
        \E r \in {execute_command(ShSelf, line)} : ShStore(r, line)

ShCat ==
    \E line \in Lines(<<"c", "a", "t">>, {<<n>> : n \in ShNames}) :
        \E r \in {execute_command(ShSelf, line)} : ShStore(r, line)

ShPwd ==
    \E line \in {<<<<"p", "w", "d">>>>} :
        \E r \in {execute_command(ShSelf, line)} : ShStore(r, line)

\* help, exit, a name that is no command, and the empty line
ShOther ==
    \E line \in {<<<<"h", "e", "l", "p">>>>, <<<<"e", "x", "i", "t">>>>,
                 <<<<"f", "o", "o">>>>, << >>} :
        \E r \in {execute_command(ShSelf, line)} : ShStore(r, line)

ShNext ==
    \/ ShMkdir
    \/ ShCd
    \/ ShLs
    \/ ShTouch
    \/ ShCat
    \/ ShEcho
    \/ ShRm
    \/ ShPwd
    \/ ShOther

Init == MMInit /\ FSInit /\ ShInit

MMNext ==
    \/ AllocateMemory
    \/ DeallocateMemory
    \/ GetMemoryUsage

\* the allocator under any sequence of calls
Spec == Init /\ [][MMNext]_vars

\* the file store under any sequence of calls
SpecFS == Init /\ [][FSNext]_vars

\* the dispatcher and its store under any sequence of command lines
SpecShell == Init /\ [][ShNext]_vars

\* the file store's load() under any sequence of creations and of events on
\* the data file
SpecDisk == Init /\ [][DiskNext]_vars


(***************************************************************************)
(* Properties of the allocator                                             *)
(***************************************************************************)

\* the i-th block of the block list
BlockAt(i) == heap[memory_blocks[i]]

\* the sizes of the free blocks of the block list
FreeSizes == {BlockAt(i).size : i \in {j \in 1..Len(memory_blocks) : BlockAt(j).is_free}}

\* no two neighbouring blocks are both free
NoAdjacentFree ==
    \A i \in 1..(Len(memory_blocks) - 1) :
        ~(BlockAt(i).is_free /\ BlockAt(i + 1).is_free)

\* the manager's fields are the same after the step
MMUnchanged == UNCHANGED <<memory_blocks, heap, used_memory, process_memory>>

\* C1: in every state reached by allocate_memory and deallocate_memory calls
\* the block list is sorted by start, its first block starts at 0, each block
\* starts where the previous one ends and the last block ends at
\* total_memory: the blocks partition [0, total_memory).
C1_BlocksPartition ==
    /\ Len(memory_blocks) >= 1
    /\ BlockAt(1).start = 0
    /\ \A i \in 1..Len(memory_blocks) : BlockAt(i).size > 0
    /\ \A i \in 1..(Len(memory_blocks) - 1) :
          /\ BlockAt(i).start < BlockAt(i + 1).start
          /\ BlockAt(i + 1).start = BlockAt(i).start + BlockAt(i).size
    /\ BlockAt(Len(memory_blocks)).start + BlockAt(Len(memory_blocks)).size
          = total_memory

\* C1 witness: a deallocation has merged blocks and three or more remain
C1_Witness ==
    /\ mm_call.op = "deallocate_memory"
    /\ mm_call.ok = TRUE
    /\ Len(memory_blocks) >= 3
    /\ Len(memory_blocks) < mm_call.nblocks

\* C2: right after a successful deallocate_memory no two neighbouring blocks
\* are both free, however many blocks the owner held.
C2_CoalescingComplete ==
    (mm_call.op = "deallocate_memory" /\ mm_call.ok = TRUE) => NoAdjacentFree

\* C2 witness: the owner held two blocks and the pass merged a run of three
\* or more free blocks into the single block that remains
C2_Witness ==
    /\ mm_call.op = "deallocate_memory"
    /\ mm_call.ok = TRUE
    /\ mm_call.held >= 2
    /\ mm_call.nblocks >= 3
    /\ Len(memory_blocks) = 1

\* C3: an allocate_memory call with 0 < size <= total_memory made when no
\* free block has size >= size returns None and leaves the block list,
\* used_memory and the owner index as they were.
C3_NoFitFails ==
    [][(/\ mm_call'.op = "allocate_memory"
        /\ mm_call'.size \in 1..total_memory
        /\ \A f \in FreeSizes : f < mm_call'.size)
       => (mm_call'.ret = None /\ MMUnchanged)]_vars

\* C3 witness: a request failed although the free blocks together would
\* have held it
C3_Witness ==
    /\ mm_call.op = "allocate_memory"
    /\ mm_call.size \in 1..total_memory
    /\ mm_call.ret = None
    /\ \A f \in FreeSizes : f < mm_call.size
    /\ total_memory - used_memory >= mm_call.size

\* C7: the first allocate_memory(p, s) with 0 < s < total_memory on a fresh
\* allocator returns 0 and leaves the blocks [0, s) owned by p and
\* [s, total_memory) free; deallocate_memory(p) right after it leaves one free
\* block of size total_memory at 0.
C7_FirstAllocateThenDeallocate ==
    [][/\ (/\ mm_ncalls = 0
           /\ mm_call'.op = "allocate_memory"
           /\ mm_call'.size \in 1..(total_memory - 1))
          => /\ mm_call'.ret = 0
             /\ Len(memory_blocks') = 2
             /\ heap'[memory_blocks'[1]] =
                  [start |-> 0, size |-> mm_call'.size, is_free |-> FALSE,
                   process_id |-> mm_call'.process_id, allocated_at |-> "now"]
             /\ heap'[memory_blocks'[2]] =
                  MemoryBlock(mm_call'.size, total_memory - mm_call'.size, TRUE)
       /\ (/\ mm_ncalls = 1
           /\ mm_call.op = "allocate_memory"
           /\ mm_call.size \in 1..(total_memory - 1)
           /\ mm_call'.op = "deallocate_memory"
           /\ mm_call'.process_id = mm_call.process_id)
          => /\ mm_call'.ok = TRUE
             /\ Len(memory_blocks') = 1
             /\ heap'[memory_blocks'[1]] = MemoryBlock(0, total_memory, TRUE)
             /\ used_memory' = 0
      ]_vars

\* C7 witness: the second call was a deallocation that found two blocks, the
\* process holding one of them, and left a single block
C7_Witness ==
    /\ mm_ncalls = 2
    /\ mm_call.op = "deallocate_memory"
    /\ mm_call.ok = TRUE
    /\ mm_call.held = 1
    /\ mm_call.nblocks = 2
    /\ Len(memory_blocks) = 1

(***************************************************************************)
(* Properties of the file store and of the dispatcher                      *)
(***************************************************************************)

\* the store's fields after the step
FSSelfNext == [root |-> root', disk |-> disk']

\* the segments of a path: its maximal runs of characters other than "/"
RECURSIVE SegsFrom(_, _, _, _)
SegsFrom(s, k, cur, acc) ==
    IF k > Len(s) THEN (IF cur = << >> THEN acc ELSE Append(acc, cur))
    ELSE IF s[k] = "/"
         THEN SegsFrom(s, k + 1, << >>, IF cur = << >> THEN acc ELSE Append(acc, cur))
         ELSE SegsFrom(s, k + 1, Append(cur, s[k]), acc)
Segs(s) == SegsFrom(s, 1, << >>, << >>)

\* the absolute path made of segments
RECURSIVE PathOf(_)
PathOf(segs) ==
    IF Len(segs) = 0 THEN <<"/">>
    ELSE IF Len(segs) = 1 THEN <<"/">> \o segs[1]
    ELSE <<"/">> \o segs[1] \o PathOf(Tail(segs))

\* the child of a directory node with that name, as a set (empty: none)
ChildrenNamed(node, name) ==
    IF node.kind = "Directory"
    THEN {node.items[i][2] : i \in {j \in 1..Len(node.items) : node.items[j][1] = name}}
    ELSE {}

\* the nodes reached from a node by descending through the segments
RECURSIVE NodesAt(_, _)
NodesAt(node, segs) ==
    IF Len(segs) = 0 THEN {node}
    ELSE UNION {NodesAt(c, Tail(segs)) : c \in ChildrenNamed(node, segs[1])}

\* the segments name an existing Directory of the tree
IsDirAt(rt, segs) == \E n \in NodesAt(rt, segs) : n.kind = "Directory"

\* every directory of the tree holds each name once
RECURSIVE UniqueNames(_)
UniqueNames(node) ==
    node.kind = "Directory" =>
        /\ \A i, j \in 1..Len(node.items) :
              node.items[i][1] = node.items[j][1] => i = j
        /\ \A i \in 1..Len(node.items) : UniqueNames(node.items[i][2])

\* C4: right after a successful write_file(dir, name, content), read_file(dir,
\* name) returns exactly content, whatever the file held before.
C4_WriteThenRead ==
    (fs_call.op = "write_file" /\ fs_call.exc = "None")
    => LET r == read_file(FSSelf, fs_call.directory, fs_call.name)
       IN r.exc = "None" /\ r.ret = fs_call.content

\* C4 witness: a file that held "hi" was written the empty content, and a
\* file that was written "hi" reads "hi"
C4_Witness ==
    /\ fs_call.op = "write_file"
    /\ fs_call.exc = "None"
    /\ fs_call.before = <<"h", "i">>
    /\ fs_call.content = << >>
    /\ fs_call.directory = <<"/", "a">>
    /\ read_file(FSSelf, fs_call.directory, fs_call.name).ret = << >>

\* C5: create_file and create_directory called with a name that is already a
\* child of the directory, file or directory, raise the already-exists
\* ValueError and leave the tree and the document as they were; every
\* directory holds each name once.
C5_AlreadyExists ==
    [][/\ (/\ fs_call'.op \in {"create_file", "create_directory"}
           /\ IsDirAt(root, Segs(fs_call'.directory))
           /\ NodesAt(root, Segs(fs_call'.directory) \o <<fs_call'.name>>) # {})
          => /\ fs_call'.exc = "ValueError"
             /\ fs_call'.msg = (IF fs_call'.op = "create_file"
                                THEN "Archivo ya existe"
                                ELSE "Directorio ya existe")
             /\ root' = root
             /\ disk' = disk
       /\ UniqueNames(root')
      ]_vars

\* C5 witness: create_file failed on the name of a directory that has a child
C5_Witness ==
    /\ fs_call.op = "create_file"
    /\ fs_call.msg = "Archivo ya existe"
    /\ \E n \in NodesAt(root, Segs(fs_call.directory) \o <<fs_call.name>>) :
          n.kind = "Directory" /\ Len(n.items) > 0

\* C6: for every tree the store reaches, save() followed by load() leaves the
\* same tree: names, nesting, kinds and contents.
C6_SaveLoadRoundTrip == load(save(FSSelf)).root = root

\* C6 witness: load() was called with a tree that holds a directory, in it an
\* empty directory and a file with empty content
C6_Witness ==
    /\ fs_call.op = "load"
    /\ disk.state = "ok"
    /\ \E d \in NodesAt(root, <<<<"a">>>>) :
          /\ d.kind = "Directory"
          /\ \E e \in {d.items[i][2] : i \in 1..Len(d.items)} :
                e.kind = "Directory" /\ e.items = << >>
          /\ \E f \in {d.items[i][2] : i \in 1..Len(d.items)} :
                f.kind = "File" /\ f.content = << >>

\* C8: after a successful create_file(dir, f, content), read_file(dir, f)
\* returns content and list_directory(dir) returns what it returned before
\* followed by the new File; when the call before was the successful
\* create_directory that made dir, the listing is that one File.
C8_CreateThenReadAndList ==
    [][(fs_call'.op = "create_file" /\ fs_call'.exc = "None")
       => LET dir == fs_call'.directory
              f == fs_call'.name
              new == [kind |-> "File", name |-> f, content |-> fs_call'.content,
                      size |-> Len(fs_call'.content), permissions |-> "rw-r--r--"]
              rd == read_file(FSSelfNext, dir, f)
              lsNow == list_directory(FSSelfNext, dir)
              lsOld == list_directory(FSSelf, dir)
          IN /\ rd.exc = "None" /\ rd.ret = fs_call'.content
             /\ lsOld.exc = "None" /\ lsNow.exc = "None"
             /\ lsNow.ret = Append(lsOld.ret, new)
             /\ (/\ fs_call.op = "create_directory"
                 /\ fs_call.exc = "None"
                 /\ Segs(dir) = Segs(fs_call.directory) \o <<fs_call.name>>)
                => lsNow.ret = <<new>>
      ]_vars

\* C8 witness: "hi" was written to a new file of a directory below the root
\* that holds nothing else
C8_Witness ==
    /\ fs_call.op = "create_file"
    /\ fs_call.exc = "None"
    /\ fs_call.directory = <<"/", "a">>
    /\ fs_call.content = <<"h", "i">>
    /\ read_file(FSSelf, fs_call.directory, fs_call.name).ret = <<"h", "i">>
    /\ Len(list_directory(FSSelf, fs_call.directory).ret) = 1

\* C9: change_directory(current, "..") returns the path of current's segments
\* without the last one, "/" when current has at most one segment, and leaves
\* the tree as it was.
C9_ParentDirectory ==
    [][(fs_call'.op = "change_directory" /\ fs_call'.name = <<".", ".">>)
       => LET segs == Segs(fs_call'.directory)
          IN /\ fs_call'.exc = "None"
             /\ fs_call'.ret = IF Len(segs) <= 1 THEN <<"/">>
                               ELSE PathOf(SubSeq(segs, 1, Len(segs) - 1))
             /\ root' = root
             /\ disk' = disk
      ]_vars

\* C9 witness: the parent of "/a/b" was returned as "/a"
C9_Witness ==
    /\ fs_call.op = "change_directory"
    /\ fs_call.name = <<".", ".">>
    /\ fs_call.directory = <<"/", "a", "/", "b">>
    /\ fs_call.ret = <<"/", "a">>

\* the segments of the path a cd target names from the current directory
CdSegs(current, target) ==
    IF Len(target) > 0 /\ target[1] = "/" THEN Segs(target)
    ELSE Segs(current) \o Segs(target)

\* C10: after every command line the dispatcher's current directory names an
\* existing Directory; a cd whose target is missing or a file returns the
\* error string and leaves the current directory as it was.
C10_CurrentDirExists ==
    [][/\ IsDirAt(root', Segs(current_dir'))
       /\ (/\ Len(sh_call'.line) >= 2
           /\ sh_call'.line[1] \in {<<"c", "d">>, <<"C", "D">>}
           /\ sh_call'.line[2] # <<".", ".">>
           /\ ~IsDirAt(root, CdSegs(current_dir, sh_call'.line[2])))
          => /\ sh_call'.out.text = "Error al cambiar directorio: "
             /\ current_dir' = current_dir
             /\ root' = root
      ]_vars

\* C10 witness: below the root, cd to a child that is a file has failed
C10_Witness ==
    /\ Len(sh_call.line) = 2
    /\ sh_call.line[1] = <<"c", "d">>
    /\ sh_call.out.text = "Error al cambiar directorio: "
    /\ Len(Segs(current_dir)) >= 1
    /\ \E n \in NodesAt(root, CdSegs(current_dir, sh_call.line[2])) :
          n.kind = "File"

\* C11: for every current path and every target, ".." included,
\* change_directory returns a path only when that path names an existing
\* Directory of the tree; otherwise it raises the not-found ValueError.
C11_ReturnsExistingDirectory ==
    [][(fs_call'.op = "change_directory" /\ fs_call'.exc = "None")
       => IsDirAt(root, Segs(fs_call'.ret))]_vars

\* C12: a path that does not start with "/" is resolved from the current
\* directory, not from the root: ls of such a path reports the directory as
\* not found exactly when the path names no Directory below the current
\* directory.
C12_RelativeFromCurrent ==
    [][(/\ Len(sh_call'.line) = 2
        /\ sh_call'.line[1] = <<"l", "s">>
        /\ ~StartsWithSlash(sh_call'.line[2]))
       => ((/\ sh_call'.out.text = "Error al listar directorio: "
            /\ sh_call'.out.arg = <<"Directorio no encontrado">>)
           <=> ~IsDirAt(root, Segs(current_dir) \o Segs(sh_call'.line[2])))
      ]_vars

\* C13: create_file, create_directory, read_file, write_file, delete and
\* list_directory called with a dir_path that names no Directory (a segment
\* is missing, the path names a File, or it passes through a File) raise the
\* ValueError 'Directorio no encontrado' and leave the tree and the document
\* as they were.
C13_DirectoryNotFound ==
    [][(/\ fs_call'.op \in {"create_file", "create_directory", "read_file",
                            "write_file", "delete", "list_directory"}
        /\ ~IsDirAt(root, Segs(fs_call'.directory)))
       => /\ fs_call'.exc = "ValueError"
          /\ fs_call'.msg = "Directorio no encontrado"
          /\ root' = root
          /\ disk' = disk
      ]_vars

\* C14: read_file and write_file on (dir, name), dir a Directory, raise the
\* not-found ValueError when dir has no child name and the not-a-file
\* ValueError when that child is a Directory; a write_file that raises leaves
\* the tree and the document as they were, and so does every read_file.
C14_ReadWriteFailures ==
    [][/\ (/\ fs_call'.op \in {"read_file", "write_file"}
           /\ IsDirAt(root, Segs(fs_call'.directory)))
          => LET kids == NodesAt(root, Segs(fs_call'.directory)
                                         \o <<fs_call'.name>>)
             IN /\ kids = {}
                   => /\ fs_call'.exc = "ValueError"
                      /\ fs_call'.msg = "Archivo no encontrado"
                /\ (\E n \in kids : n.kind = "Directory")
                   => /\ fs_call'.exc = "ValueError"
                      /\ fs_call'.msg = "No es un archivo"
       /\ (fs_call'.op = "write_file" /\ fs_call'.exc # "None")
          => (root' = root /\ disk' = disk)
       /\ fs_call'.op = "read_file" => (root' = root /\ disk' = disk)
      ]_vars

\* C14 witness: write_file found no child of that name in a directory below
\* the root, and the directory still holds nothing
C14_Witness ==
    /\ fs_call.op = "write_file"
    /\ fs_call.msg = "Archivo no encontrado"
    /\ fs_call.directory = <<"/", "a">>
    /\ \E d \in NodesAt(root, <<<<"a">>>>) :
          d.kind = "Directory" /\ d.items = << >>

\* the tree without the child name of the directory the segments lead to
RECURSIVE Without(_, _, _)
Without(node, segs, name) ==
    LET items == node.items
    IN [node EXCEPT !.items =
          IF Len(segs) = 0
          THEN SelectSeq(items, LAMBDA e : e[1] # name)
          ELSE [i \in 1..Len(items) |->
                  IF items[i][1] = segs[1]
                  THEN <<items[i][1], Without(items[i][2], Tail(segs), name)>>
                  ELSE items[i]]]

\* the segments of the paths at and below a node, three levels deep
BelowSegs ==
    {<< >>} \cup {<<n>> : n \in Names} \cup {<<n, m>> : n, m \in Names}
        \cup {<<n, m, k>> : n, m, k \in Names}

\* C15: a delete(dir, name) that returns removes the child name of dir with
\* its whole subtree and nothing else: name and every path below it resolve
\* to nothing, the rest of the tree is as it was, and a second delete(dir,
\* name) raises the not-found ValueError; a delete of a name dir does not
\* hold raises the not-found ValueError and leaves the tree and the document
\* as they were.
C15_DeleteExactly ==
    [][/\ (fs_call'.op = "delete" /\ fs_call'.exc = "None")
          => LET segs == Segs(fs_call'.directory)
                 again == delete(FSSelfNext, fs_call'.directory, fs_call'.name)
             IN /\ root' = Without(root, segs, fs_call'.name)
                /\ \A s \in BelowSegs :
                      get_item(root', PathOf(segs \o <<fs_call'.name>> \o s)).tag
                         = "None"
                /\ again.exc = "ValueError"
                /\ again.msg = "Item no encontrado"
                /\ again.self = FSSelfNext
       /\ (/\ fs_call'.op = "delete"
           /\ IsDirAt(root, Segs(fs_call'.directory))
           /\ NodesAt(root, Segs(fs_call'.directory) \o <<fs_call'.name>>) = {})
          => /\ fs_call'.exc = "ValueError"
             /\ fs_call'.msg = "Item no encontrado"
             /\ root' = root
             /\ disk' = disk
      ]_vars

\* C15 witness: a directory with a child was deleted and another child of the
\* root remains
C15_Witness ==
    /\ fs_call.op = "delete"
    /\ fs_call.exc = "None"
    /\ Len(fs_call.removed) = 1
    /\ fs_call.removed[1].kind = "Directory"
    /\ Len(fs_call.removed[1].items) > 0
    /\ Len(root.items) > 0

\* C16: allocate_memory(owner, size) with size <= 0 or size > total_memory
\* returns None and leaves the block list, used_memory and the owner index
\* as they were, in every state.
C16_InvalidSize ==
    [][(/\ mm_call'.op = "allocate_memory"
        /\ (mm_call'.size <= 0 \/ mm_call'.size > total_memory))
       => (mm_call'.ret = None /\ MMUnchanged)]_vars

\* C16 witness: a request of size 0 was refused while a free block and an
\* allocated block were in the list
C16_Witness ==
    /\ mm_call.op = "allocate_memory"
    /\ mm_call.size = 0
    /\ mm_call.ret = None
    /\ FreeSizes # {}
    /\ used_memory > 0

\* the blocks of the list that a process owns, as indexes
OwnedBy(process_id) ==
    {i \in 1..Len(memory_blocks) : BlockAt(i).process_id = process_id}

\* C17: deallocate_memory(owner) for an owner that holds no block returns
\* False and leaves the block list, used_memory and the owner index as they
\* were; for an owner that holds a block it returns True, and the same call
\* made again right after it returns False.
C17_UnknownOwner ==
    [][/\ (/\ mm_call'.op = "deallocate_memory"
           /\ OwnedBy(mm_call'.process_id) = {})
          => (mm_call'.ok = FALSE /\ MMUnchanged)
       /\ (/\ mm_call'.op = "deallocate_memory"
           /\ OwnedBy(mm_call'.process_id) # {})
          => mm_call'.ok = TRUE
       /\ (/\ mm_call.op = "deallocate_memory"
           /\ mm_call.ok = TRUE
           /\ mm_call'.op = "deallocate_memory"
           /\ mm_call'.process_id = mm_call.process_id)
          => (mm_call'.ok = FALSE /\ MMUnchanged)
      ]_vars

\* C17 witness: a deallocation for a process that held nothing was refused
\* while the other process held a block
C17_Witness ==
    /\ mm_call.op = "deallocate_memory"
    /\ mm_call.ok = FALSE
    /\ mm_call.held = 0
    /\ used_memory > 0
    /\ DOMAIN process_memory # {}

\* the sum of the sizes of the blocks at a set of indexes of the list
RECURSIVE SumSizes(_)
SumSizes(is) ==
    IF is = {} THEN 0
    ELSE LET i == CHOOSE j \in is : TRUE
         IN BlockAt(i).size + SumSizes(is \ {i})

\* the i-th block of the block list after the step
BlockAtNext(i) == heap'[memory_blocks'[i]]

\* C18: a deallocate_memory(owner) that returns True frees every block of
\* the owner, however many it held: afterwards no block of the list has that
\* owner, the addresses of each of its blocks lie in a free block without
\* owner and timestamp, used_memory is lower by the sum of their sizes, and
\* the owner has no entry in the index; the blocks of the other owners are
\* as they were.
C18_FreesEveryBlock ==
    [][(mm_call'.op = "deallocate_memory" /\ mm_call'.ok = TRUE)
       => LET p == mm_call'.process_id
              after == 1..Len(memory_blocks')
          IN /\ \A j \in after : BlockAtNext(j).process_id # p
             /\ \A i \in OwnedBy(p) :
                   \E j \in after :
                      /\ BlockAtNext(j).is_free
                      /\ BlockAtNext(j).process_id = None
                      /\ BlockAtNext(j).allocated_at = "None"
                      /\ BlockAtNext(j).start <= BlockAt(i).start
                      /\ BlockAt(i).start + BlockAt(i).size
                            <= BlockAtNext(j).start + BlockAtNext(j).size
             /\ used_memory' = used_memory - SumSizes(OwnedBy(p))
             /\ p \notin DOMAIN process_memory'
             /\ \A i \in 1..Len(memory_blocks) :
                   BlockAt(i).process_id \notin {p, None}
                   => \E j \in after : BlockAtNext(j) = BlockAt(i)
      ]_vars

\* C18 witness: a process that held two blocks was freed while the other
\* process kept its block
C18_Witness ==
    /\ mm_call.op = "deallocate_memory"
    /\ mm_call.ok = TRUE
    /\ mm_call.held >= 2
    /\ used_memory > 0
    /\ mm_call.process_id \notin DOMAIN process_memory

\* C19: an allocate_memory(owner, size) that does not return None returns
\* the start of a block that afterwards is not free, has size exactly size,
\* carries the owner and a timestamp and is listed in the owner's entry of
\* the index; used_memory is higher by exactly size.
C19_AllocatedBlock ==
    [][(mm_call'.op = "allocate_memory" /\ mm_call'.ret # None)
       => LET p == mm_call'.process_id
          IN /\ \E j \in 1..Len(memory_blocks') :
                   /\ BlockAtNext(j).start = mm_call'.ret
                   /\ ~BlockAtNext(j).is_free
                   /\ BlockAtNext(j).size = mm_call'.size
                   /\ BlockAtNext(j).process_id = p
                   /\ BlockAtNext(j).allocated_at = "now"
                   /\ p \in DOMAIN process_memory'
                   /\ memory_blocks'[j] \in RefsOf(process_memory'[p])
             /\ used_memory' = used_memory + mm_call'.size
      ]_vars

\* C19 witness: a process that held a block was given a second one, split
\* off a larger free block that does not start at 0
C19_Witness ==
    /\ mm_call.op = "allocate_memory"
    /\ mm_call.ret > 0
    /\ mm_call.held >= 1
    /\ Len(memory_blocks) > mm_call.nblocks
    /\ Len(process_memory[mm_call.process_id]) = mm_call.held + 1

\* C20: get_memory_usage changes neither the block list, used_memory nor the
\* owner index, and in every state it is called in it reports total_memory,
\* used_memory, the sum of the free blocks' sizes as free_memory, the length
\* of the list as total_blocks, and free_blocks and allocated_blocks that
\* add up to total_blocks.
C20_UsageIsPureRead ==
    [][mm_call'.op = "get_memory_usage"
       => LET usage == mm_call'.usage[1]
              free == {i \in 1..Len(memory_blocks) : BlockAt(i).is_free}
          IN /\ MMUnchanged
             /\ usage.total_memory = total_memory
             /\ usage.used_memory = used_memory
             /\ usage.free_memory = SumSizes(free)
             /\ usage.total_blocks = Len(memory_blocks)
             /\ usage.free_blocks + usage.allocated_blocks = usage.total_blocks
      ]_vars

\* C20 witness: the report was made of a list with two free blocks apart and
\* two blocks of one process
C20_Witness ==
    /\ mm_call.op = "get_memory_usage"
    /\ mm_call.usage[1].free_blocks >= 2
    /\ mm_call.usage[1].allocated_blocks >= 2
    /\ Cardinality(DOMAIN process_memory) = 1

\* C21: after every create_file, create_directory, write_file or delete that
\* returns, the document on disk is the serialization of the whole tree as it
\* is after the call; a call that raises does not rewrite the document; and
\* after every call a load() of the document leaves the tree that is in
\* memory.
C21_DocumentFollowsTree ==
    [][/\ (/\ fs_call'.op \in {"create_file", "create_directory",
                               "write_file", "delete"}
           /\ fs_call'.exc = "None")
          => disk' = [state |-> "ok", data |-> to_dict(root')]
       /\ fs_call'.exc # "None" => disk' = disk
       /\ load(FSSelfNext).root = root'
      ]_vars

\* C21 witness: a delete below the root has returned and the document holds
\* the tree that remains, a directory with one file in it
C21_Witness ==
    /\ fs_call.op = "delete"
    /\ fs_call.exc = "None"
    /\ fs_call.directory = <<"/", "a">>
    /\ disk.state = "ok"
    /\ Len(disk.data.items) = 1
    /\ Len(disk.data.items[1][2].items) = 1
    /\ "content" \in DOMAIN disk.data.items[1][2].items[1][2]

\* the data file is missing or corrupt: there is no file, its text is no
\* JSON document, or the document lacks a key
DataFileUnreadable ==
    \/ disk.state \in {"missing", "corrupt"}
    \/ disk.state = "ok" /\ Directory_from_dict_raises(disk.data)

\* C22: load() on a missing or corrupt data file does not raise and leaves
\* the store with a fresh empty root "/", also when the tree in memory was
\* not empty; a document that is only partly well-formed yields no partly
\* loaded tree.
C22_LoadFallsBackToFreshRoot ==
    [][(fs_call'.op = "load" /\ DataFileUnreadable)
       => /\ fs_call'.exc = "None"
          /\ root' = Directory(<<"/">>)
      ]_vars

\* the names of the commands, and of those that take an argument
CommandNames ==
    {<<"h", "e", "l", "p">>, <<"m", "k", "d", "i", "r">>, <<"c", "d">>,
     <<"l", "s">>, <<"t", "o", "u", "c", "h">>, <<"c", "a", "t">>,
     <<"e", "c", "h", "o">>, <<"r", "m">>, <<"p", "w", "d">>,
     <<"e", "x", "i", "t">>}

\* the string a command returns when its argument is missing
UsageText(cmd) ==
    CASE cmd = <<"m", "k", "d", "i", "r">> -> "Uso: mkdir <nombre>"
      [] cmd = <<"c", "d">> -> "Uso: cd <ruta>"
      [] cmd = <<"t", "o", "u", "c", "h">> -> "Uso: touch <nombre>"
      [] cmd = <<"c", "a", "t">> -> "Uso: cat <archivo>"
      [] cmd = <<"e", "c", "h", "o">> -> "Uso: echo <texto> > <archivo>"
      [] cmd = <<"r", "m">> -> "Uso: rm <archivo>"
      [] OTHER -> ""

\* the string a command puts before the message of a store error
ErrorText(cmd) ==
    CASE cmd = <<"m", "k", "d", "i", "r">> -> "Error al crear directorio: "
      [] cmd = <<"c", "d">> -> "Error al cambiar directorio: "
      [] cmd = <<"l", "s">> -> "Error al listar directorio: "
      [] cmd = <<"t", "o", "u", "c", "h">> -> "Error al crear archivo: "
      [] cmd = <<"c", "a", "t">> -> "Error al leer archivo: "
      [] cmd = <<"e", "c", "h", "o">> -> "Error al escribir archivo: "
      [] cmd = <<"r", "m">> -> "Error al eliminar: "
      [] OTHER -> ""

\* the call a command line with its argument makes on the store, from the
\* current directory
StoreCall(cmd, args) ==
    CASE cmd = <<"m", "k", "d", "i", "r">>
           -> create_directory(FSSelf, current_dir, args[1])
      [] cmd = <<"c", "d">> -> change_directory(FSSelf, current_dir, args[1])
      [] cmd = <<"l", "s">> -> list_directory(FSSelf, args[1])
      [] cmd = <<"t", "o", "u", "c", "h">>
           -> create_file(FSSelf, current_dir, args[1], << >>)
      [] cmd = <<"c", "a", "t">> -> read_file(FSSelf, current_dir, args[1])
      [] cmd = <<"e", "c", "h", "o">>
           -> write_file(FSSelf, current_dir, args[Len(args)],
                         JoinSpace(SubSeq(args, 1, Len(args) - 2)))
      [] cmd = <<"r", "m">> -> delete(FSSelf, current_dir, args[1])
      [] OTHER -> Return(FSSelf, "None")

\* C23: execute_command returns a string for every command line: a name
\* that is no command gives the not-found string and leaves the tree and the
\* current directory as they were, a command without its argument gives its
\* usage string, and an error the store raises for a command is returned as
\* that command's error string with the store's message.
C23_AlwaysAString ==
    [][Len(sh_call'.line) > 0
       => \A cmd \in {Lower(sh_call'.line[1])} :
          LET args == Tail(sh_call'.line)
              same == root' = root /\ disk' = disk /\ current_dir' = current_dir
          IN /\ cmd \notin CommandNames
                => /\ sh_call'.out.text = "Comando no encontrado: "
                   /\ sh_call'.out.arg = cmd
                   /\ same
             /\ cmd \in CommandNames
                => sh_call'.out.text # "Comando no encontrado: "
             /\ (UsageText(cmd) # "" /\ Len(args) = 0)
                => (sh_call'.out.text = UsageText(cmd) /\ same)
             /\ (ErrorText(cmd) # "" /\ Len(args) > 0)
                => \A r \in {StoreCall(cmd, args)} :
                      r.exc # "None"
                      => /\ sh_call'.out.text = ErrorText(cmd)
                         /\ sh_call'.out.arg = <<r.msg>>
                         /\ same
      ]_vars

\* C23 witness: below the root, cat of a name that is a directory returned
\* the error string of the store's not-a-file error
C23_Witness ==
    /\ Len(sh_call.line) = 2
    /\ sh_call.line[1] = <<"c", "a", "t">>
    /\ sh_call.out.text = "Error al leer archivo: "
    /\ sh_call.out.arg = <<"No es un archivo">>
    /\ Len(Segs(current_dir)) >= 1

\* the lines ls is to return for the children of a directory from child k
\* on: "[DIR] name" or "[FILE] name", joined by newlines
RECURSIVE ListingFrom(_, _)
ListingFrom(items, k) ==
    IF k > Len(items) THEN << >>
    ELSE (IF k > 1 THEN <<"\n">> ELSE << >>)
         \o <<IF items[k][2].kind = "Directory" THEN "[DIR] " ELSE "[FILE] ">>
         \o items[k][1]
         \o ListingFrom(items, k + 1)

\* C24: ls without a path, or with an absolute path, on a directory that has
\* a child returns one line per child, "[DIR] name" for a directory and
\* "[FILE] name" for a file, in insertion order; on an empty directory it
\* returns "Directorio vacío".
C24_LsListsChildren ==
    [][(/\ Len(sh_call'.line) \in 1..2
        /\ sh_call'.line[1] = <<"l", "s">>
        /\ Len(sh_call'.line) = 2 => StartsWithSlash(sh_call'.line[2]))
       => \A d \in NodesAt(root, IF Len(sh_call'.line) = 2
                                 THEN Segs(sh_call'.line[2])
                                 ELSE Segs(current_dir)) :
             d.kind = "Directory"
             => sh_call'.out =
                   IF Len(d.items) = 0
                   THEN [text |-> "Directorio vacío", arg |-> << >>]
                   ELSE [text |-> "", arg |-> ListingFrom(d.items, 1)]
      ]_vars

\* the blocks of the list that are free and hold a request, as indexes
Fits(size) ==
    {i \in 1..Len(memory_blocks) : BlockAt(i).is_free /\ BlockAt(i).size >= size}

\* C25: when allocate_memory returns an address, the block it took was
\* chosen by best fit: it was a free block of size >= the request, no such
\* block was smaller, and none of the same size started at a lower address.
C25_BestFit ==
    [][(mm_call'.op = "allocate_memory" /\ mm_call'.ret # None)
       => \E c \in Fits(mm_call'.size) :
             /\ BlockAt(c).start = mm_call'.ret
             /\ \A j \in Fits(mm_call'.size) :
                   \/ BlockAt(j).size > BlockAt(c).size
                   \/ /\ BlockAt(j).size = BlockAt(c).size
                      /\ BlockAt(j).start >= BlockAt(c).start
      ]_vars

\* C25 witness: a block was taken although a free block at a lower address
\* was large enough for the request
C25_Witness ==
    /\ mm_call.op = "allocate_memory"
    /\ mm_call.ret # None
    /\ \E i \in 1..Len(memory_blocks) :
          /\ BlockAt(i).is_free
          /\ BlockAt(i).start < mm_call.ret
          /\ BlockAt(i).size >= mm_call.size

\* C26: when the free block allocate_memory takes is larger than the request
\* it keeps its start, shrinks to exactly size and becomes allocated, one new
\* free block of the remaining size is inserted right after it at start +
\* size, and the list is one block longer; when its size equals the request
\* it becomes allocated as it is and the list keeps its length.
C26_Split ==
    [][(mm_call'.op = "allocate_memory" /\ mm_call'.ret # None)
       => \E c \in 1..Len(memory_blocks) :
             /\ BlockAt(c).start = mm_call'.ret
             /\ BlockAt(c).is_free
             /\ BlockAtNext(c).start = BlockAt(c).start
             /\ BlockAtNext(c).size = mm_call'.size
             /\ ~BlockAtNext(c).is_free
             /\ IF BlockAt(c).size > mm_call'.size
                THEN /\ Len(memory_blocks') = Len(memory_blocks) + 1
                     /\ BlockAtNext(c + 1) =
                          MemoryBlock(BlockAt(c).start + mm_call'.size,
                                      BlockAt(c).size - mm_call'.size, TRUE)
                     /\ \A j \in (c + 1)..Len(memory_blocks) :
                           BlockAtNext(j + 1) = BlockAt(j)
                ELSE /\ Len(memory_blocks') = Len(memory_blocks)
                     /\ BlockAt(c).size = mm_call'.size
                     /\ \A j \in (c + 1)..Len(memory_blocks) :
                           BlockAtNext(j) = BlockAt(j)
      ]_vars

\* C26 witness: a block that was not the last of the list was split, and the
\* remainder lies between it and the block that followed it
C26_Witness ==
    /\ mm_call.op = "allocate_memory"
    /\ mm_call.ret # None
    /\ Len(memory_blocks) = mm_call.nblocks + 1
    /\ \E c \in 1..(Len(memory_blocks) - 2) :
          /\ BlockAt(c).start = mm_call.ret
          /\ BlockAt(c + 1).is_free
          /\ ~BlockAt(c + 2).is_free

\* C27: in every state of the allocator a process has an entry in the index
\* exactly when a block of the list is allocated to it, its entry lists
\* exactly the blocks of the list that carry it, each once, a block is free
\* exactly when it has no owner, and after a successful allocation the entry
\* is one longer than it was.
C27_IndexConsistent ==
    /\ DOMAIN process_memory \subseteq Pids
    /\ \A p \in Pids : (p \in DOMAIN process_memory) <=> (OwnedBy(p) # {})
    /\ \A p \in DOMAIN process_memory :
          /\ RefsOf(process_memory[p]) = {memory_blocks[i] : i \in OwnedBy(p)}
          /\ Len(process_memory[p]) = Cardinality(OwnedBy(p))
    /\ \A i \in 1..Len(memory_blocks) :
          BlockAt(i).is_free <=> (BlockAt(i).process_id = None)
    /\ (mm_call.op = "allocate_memory" /\ mm_call.ret # None)
       => Len(process_memory[mm_call.process_id]) = mm_call.held + 1

\* C27 witness: both processes have an entry, one of them with two blocks
\* that are not neighbours
C27_Witness ==
    /\ Cardinality(DOMAIN process_memory) = 2
    /\ \E p \in DOMAIN process_memory :
          /\ Len(process_memory[p]) = 2
          /\ \E i, j \in OwnedBy(p) : j > i + 1

\* C28: in every state of the allocator, after an allocate_memory as after a
\* deallocate_memory, no two neighbouring blocks of the list are both free.
C28_NeverTwoFreeNeighbours ==
    \A i \in 1..(Len(memory_blocks) - 1) :
        BlockAt(i).is_free => ~BlockAt(i + 1).is_free

\* C28 witness: an allocation has split a block and its free remainder lies
\* between blocks of the two processes
C28_Witness ==
    /\ mm_call.op = "allocate_memory"
    /\ mm_call.ret # None
    /\ Len(memory_blocks) = mm_call.nblocks + 1
    /\ \E i \in 2..(Len(memory_blocks) - 1) :
          /\ BlockAt(i).is_free
          /\ BlockAt(i - 1).process_id = mm_call.process_id
          /\ BlockAt(i + 1).process_id \notin {None, mm_call.process_id}

\* C29: in every state of the allocator used_memory is the sum of the sizes
\* of the allocated blocks, it lies in 0..total_memory, and with the sum of
\* the free blocks' sizes it makes total_memory.
C29_UsedMemoryIsSum ==
    LET all == 1..Len(memory_blocks)
        free == {i \in all : BlockAt(i).is_free}
    IN /\ used_memory = SumSizes(all \ free)
       /\ used_memory \in 0..total_memory
       /\ used_memory + SumSizes(free) = total_memory

\* C29 witness: the whole memory is allocated, in three or more blocks
C29_Witness ==
    /\ used_memory = total_memory
    /\ Len(memory_blocks) >= 3
    /\ \A i \in 1..Len(memory_blocks) : ~BlockAt(i).is_free

\* the blocks of the list that a process owns after the step, as indexes
OwnedByNext(process_id) ==
    {i \in 1..Len(memory_blocks') : BlockAtNext(i).process_id = process_id}

\* C30: allocate_memory and deallocate_memory for one owner leave the blocks
\* of every other owner as they were: each of them is in the list after the
\* call with the start, the size and the owner it had, and the other owner
\* holds no block more or less.
C30_OtherOwnersUntouched ==
    [][mm_call'.op \in {"allocate_memory", "deallocate_memory"}
       => \A q \in Pids \ {mm_call'.process_id} :
             /\ \A i \in OwnedBy(q) :
                   \E j \in OwnedByNext(q) :
                      /\ BlockAtNext(j).start = BlockAt(i).start
                      /\ BlockAtNext(j).size = BlockAt(i).size
                      /\ ~BlockAtNext(j).is_free
             /\ Cardinality(OwnedByNext(q)) = Cardinality(OwnedBy(q))
      ]_vars

\* C30 witness: a deallocation has merged the blocks of one process into a
\* free block that lies between the two blocks of the other process
C30_Witness ==
    /\ mm_call.op = "deallocate_memory"
    /\ mm_call.ok = TRUE
    /\ Len(memory_blocks) < mm_call.nblocks
    /\ \E q \in Pids \ {mm_call.process_id} :
          \E i, j \in OwnedBy(q) : j = i + 2 /\ BlockAt(i + 1).is_free

====
